---- MODULE Spec2Model ----
(***************************************************************************)
(* clap-backend: a per-resource clap counter with a per-client, per-window *)
(* rate limit.  The repository holds two deployments of the POST handler:  *)
(*   - the relational (D1) worker, src/unnamed/part_000, and               *)
(*   - the key-value (KV) worker, src/worker.js.                           *)
(* A behaviour of this module is one deployment (chosen in Init) serving a *)
(* bounded number of requests while the clock advances and, for D1, the    *)
(* scheduled clean-up runs.                                                *)
(*                                                                         *)
(* Specifications.  Spec, SpecD1 and SpecKV: either worker, or one of      *)
(* them, with two POSTs over three windows.  The others keep the actions   *)
(* and narrow what the requests are drawn from (the variable inp):         *)
(* SpecRead (GETs among POSTs), SpecDebounce (three POSTs within a second  *)
(* and a half), SpecKVRace (three POSTs on a nearly used-up KV limiter),   *)
(* SpecSched (the clean-up loop with small batches, under fairness),       *)
(* SpecKeys (addresses and slugs with colons), SpecClamp (the clamping).   *)
(*                                                                         *)
(* Numbers.  The D1 tables hold integers.  The KV worker never floors the  *)
(* requested amount, so every number of the KV worker (and every requested *)
(* amount of a body) is kept in TENTHS: 37 stands for 3.7, 10 for 1.       *)
(* Times are milliseconds counted from an epoch that is a multiple of the  *)
(* window length; the first instant of a behaviour is one window after it, *)
(* as Date.now() is far from 0 in the program.                             *)
(***************************************************************************)
EXTENDS Integers, Sequences, FiniteSets, TLC

(* ------------------------------ bounds -------------------------------- *)
\* number of POST requests of one behaviour
MaxReq == 2
\* the clock ranges over windows 1..MaxWindow
MaxWindow == 3
\* the clean-up's batch size where the loop is followed turn by turn (the
\* deployed size is BATCH_SIZE)
SmallBatch == 2

(* ------------------------- program constants -------------------------- *)
RATE_LIMIT_WINDOW_MS == 3600000
DEBOUNCE_MS == 500
DEFAULT_MAX_CLAPS_PER_IP == 50
DEFAULT_MAX_CLAPS_PER_REQUEST == 10
MAX_CLAPS_PER_IP == 50
KV_MAX_PER_REQUEST == 10
RETENTION_MS == 7200000
BATCH_SIZE == 1000
\* the value JavaScript calls NaN (no number of the model is that small)
NaN == -1000000

(* --------------------------- small helpers ---------------------------- *)
Min(a, b) == IF a <= b THEN a ELSE b
Max(a, b) == IF a >= b THEN a ELSE b

\* a whole number n as tenths
Num(n) == n * 10

\* JavaScript arithmetic on tenths, NaN propagating
JsAdd(a, b) == IF a = NaN \/ b = NaN THEN NaN ELSE a + b
JsGt(a, b) == a # NaN /\ b # NaN /\ a > b
JsMax(a, b) == IF a = NaN \/ b = NaN THEN NaN ELSE Max(a, b)
JsMin(a, b) == IF a = NaN \/ b = NaN THEN NaN ELSE Min(a, b)
\* x || d for a number x: NaN and 0 are falsy
JsOr(x, d) == IF x = NaN \/ x = 0 THEN d ELSE x
\* Math.floor of tenths, as a whole number
Floor(t) == t \div 10
\* parseInt(s, 10) of the decimal string of a non-negative number (tenths
\* in, tenths out): the digits before the point; parseInt("NaN") is NaN
ParseInt(v) == IF v = NaN THEN NaN ELSE (v \div 10) * 10
\* JSON.parse(JSON.stringify(x)) of a number: NaN is written as null, and
\* null counts as 0 in the handler's + and >
JsonNumber(v) == IF v = NaN THEN 0 ELSE v
IsWhole(v) == v # NaN /\ v % 10 = 0

(* ------------------------------ inputs -------------------------------- *)
\* request bodies: JSON that does not parse (or no body), {"count": n},
\* {"count": "abc"}, {}
BodyInvalid == [kind |-> "invalid", count |-> 0]
BodyNum(t) == [kind |-> "num", count |-> t]
BodyStr == [kind |-> "str", count |-> 0]
BodyNoCount == [kind |-> "nocount", count |-> 0]

\* the bodies requests of the state machine send: none, 999
Bodies == {BodyInvalid, BodyNum(9990)}

\* The slugs and the CF-Connecting-IP headers of the requests; "" is a request
\* without the header.  Requests that fail isValidSlug or the Origin check
\* return before any state is read and are not modelled.
Slugs == {"a", "b"}
IpHeaders == {"", "1.1.1.1"}

\* env: parseInt of MAX_CLAPS_PER_IP and of MAX_CLAPS_PER_REQUEST (NaN: unset).
\* The D1 worker runs with the defaults (50, 10), with L = 3 and R = 2, or
\* with L = 3 and the default R = 10 (R > L).
Envs ==
  { [MAX_CLAPS_PER_IP |-> l, MAX_CLAPS_PER_REQUEST |-> q, IP_HASH_SALT |-> "s"] :
      <<l, q>> \in {<<NaN, NaN>>, <<3, 2>>, <<3, NaN>>} }
\* the KV worker reads neither limit from env
KvEnv == [MAX_CLAPS_PER_IP |-> NaN, MAX_CLAPS_PER_REQUEST |-> NaN, IP_HASH_SALT |-> "s"]

Offsets == {0, DEBOUNCE_MS, RATE_LIMIT_WINDOW_MS - 1}
Instants == { w * RATE_LIMIT_WINDOW_MS + o : w \in 1..MaxWindow, o \in Offsets }
FirstInstant == RATE_LIMIT_WINDOW_MS

\* request slots: the behaviours of Spec, SpecD1 and SpecKV use MaxReq of them,
\* the narrower specifications further down one more
MoreReq == MaxReq + 1
Reqs == 1..MoreReq

\* what the requests of a behaviour are drawn from, and the size of the
\* clean-up's batches
DefaultInp ==
  [slugs |-> Slugs, headers |-> IpHeaders, instants |-> Instants,
   nreq |-> MaxReq, batchSize |-> BATCH_SIZE]

(* --------------------------- pure functions --------------------------- *)
getMaxClapsPerIp(e) == JsOr(e.MAX_CLAPS_PER_IP, DEFAULT_MAX_CLAPS_PER_IP)
getMaxClapsPerRequest(e) == JsOr(e.MAX_CLAPS_PER_REQUEST, DEFAULT_MAX_CLAPS_PER_REQUEST)

\* SHA-256 of salt ":" input, taken to be collision free
sha256Hex(e, input) == "sha256(" \o e.IP_HASH_SALT \o ":" \o input \o ")"

getClientIp(header) == IF header = "" THEN "0.0.0.0" ELSE header

getClapKey(slug) == "claps:" \o slug
getRateLimitKey(ip, slug) == "rl:" \o ip \o ":" \o slug

\* D1: requested = Number(body?.count) when finite, else 1 (tenths)
D1Requested(body) == IF body.kind = "num" THEN body.count ELSE Num(1)

\* D1: Math.min(Math.max(Math.floor(requested), 1), R), a whole number
D1IncrementBy(body, e) ==
  Min(Max(Floor(D1Requested(body)), 1), getMaxClapsPerRequest(e))

\* KV: body.count || 1, where a body that does not parse is {count: 1}
KVRequested(body) ==
  CASE body.kind = "num" -> JsOr(body.count, Num(1))
    [] body.kind = "str" -> NaN
    [] OTHER -> Num(1)

\* KV: Math.min(Math.max(body.count || 1, 1), 10), in tenths, not floored
KVIncrementBy(body) ==
  JsMin(JsMax(KVRequested(body), Num(1)), Num(KV_MAX_PER_REQUEST))

windowStart(now) == (now \div RATE_LIMIT_WINDOW_MS) * RATE_LIMIT_WINDOW_MS

(* ------------------------------- state -------------------------------- *)
VARIABLES
  variant,          \* "D1" (part_000) or "KV" (worker.js): the deployed worker
  env,              \* the worker's configuration
  clock,            \* the last value Date.now() returned
  claps,            \* D1 table claps: slug -> [count, updated_at]
  rate_limits,      \* D1 table rate_limits: <<ip_hash, slug, window_start>> -> [count, updated_at]
  lastRequestTime,  \* D1 worker's in-memory Map: debounceKey -> time
  kvClaps,          \* KV namespace, keys claps:<slug>: the stored number (tenths)
  kvRl,             \* KV namespace, keys rl:<ip>:<slug>: [count, start]
  req,              \* the POST handlers: position, locals and what each has done
  schedPc,          \* the scheduled handler: "idle", "loop" or "done"
  cutoff,           \* the scheduled handler's cutoff
  compacted,        \* history: the rate_limits keys the scheduled handler has deleted
  hist,             \* history: the <<client, slug, window_start>> of the POSTs accepted
                    \* before the behaviour starts
  arg,              \* clamping alone: the body given
  res,              \* clamping alone: <<the amount computed, in tenths>>, <<>> before it
  inp,              \* fixed in Init: the slugs, headers and instants of the requests,
                    \* their number, and the clean-up's batch size
  got               \* the last GET answered: [slug, count, writes], <<>> before any

vars == <<variant, env, clock, claps, rate_limits, lastRequestTime, kvClaps, kvRl,
          req, schedPc, cutoff, compacted, hist, arg, res, inp, got>>

d1Store == <<claps, rate_limits, lastRequestTime, schedPc, cutoff, compacted>>
kvStore == <<kvClaps, kvRl>>
aux == <<hist, arg, res, inp, got>>

IdleReq ==
  [pc |-> "idle", slug |-> "", hdr |-> "", token |-> "", now |-> 0, at |-> 0,
   ws |-> 0, inc |-> 0,
   outcome |-> "none", debounced |-> FALSE, charged |-> FALSE, counted |-> FALSE,
   calls |-> 0, rlCount |-> 0, rlStart |-> 0, newCount |-> 0]

\* a table, a Map or a namespace with nothing in it
Empty == [k \in {} |-> 0]

\* A KV namespace after five accepted POSTs of 10 for ("1.1.1.1", "a"), all
\* of them at UsedStart
UsedStart == FirstInstant + DEBOUNCE_MS
UsedKvRl ==
  (getRateLimitKey("1.1.1.1", "a") :> [count |-> Num(MAX_CLAPS_PER_IP), start |-> UsedStart])
UsedKvClaps == (getClapKey("a") :> Num(MAX_CLAPS_PER_IP))
UsedHist == {<<"1.1.1.1", "a", windowStart(UsedStart)>>}

Init ==
  /\ variant \in {"D1", "KV"}
  /\ env \in Envs
  /\ variant = "KV" => env = KvEnv
  /\ claps = Empty
  /\ rate_limits = Empty
  /\ lastRequestTime = Empty
  /\ \/ /\ kvRl = Empty
        /\ kvClaps = Empty
        /\ hist = {}
        /\ clock = FirstInstant
     \/ /\ variant = "KV"
        /\ kvRl = UsedKvRl
        /\ kvClaps = UsedKvClaps
        /\ hist = UsedHist
        /\ clock = UsedStart
  /\ arg = BodyInvalid
  /\ res = <<>>
  /\ inp = DefaultInp
  /\ got = <<>>
  /\ req = [r \in Reqs |-> IdleReq]
  /\ schedPc = "idle"
  /\ cutoff = 0
  /\ compacted = {}

\* requests are taken in the order of their numbers
MayStart(r) ==
  /\ r <= inp.nreq
  /\ req[r].pc = "idle"
  /\ \A q \in Reqs : q < r => req[q].pc # "idle"

\* Date.now(): some instant not before the last one read
Nows == { t \in inp.instants : t >= clock }

Put(f, k, v) == [x \in DOMAIN f \cup {k} |-> IF x = k THEN v ELSE f[x]]

(* ------------------------ D1 worker: the store ------------------------ *)
\* WHERE rate_limits.count + excluded.count <= ?6
WithinLimitPre(cur, inc, limit) == cur <= limit
WithinLimit(cur, inc, limit) == cur + inc <= limit

\* rateLimitStmt: INSERT ... ON CONFLICT DO UPDATE ... WHERE: the table after it
RateLimitUpsertTouch(rl, key, inc, now, limit) ==
  IF key \notin DOMAIN rl
    THEN Put(rl, key, [count |-> inc, updated_at |-> now])
    ELSE IF WithinLimit(rl[key].count, inc, limit)
           THEN Put(rl, key, [count |-> rl[key].count + inc, updated_at |-> now])
           ELSE Put(rl, key, [count |-> rl[key].count, updated_at |-> now])
\* (a row the clean-up deleted leaves a count of 1 behind)
RateLimitUpsertStale(rl, key, inc, now, limit) ==
  IF key \notin DOMAIN rl
    THEN Put(rl, key, [count |-> IF key \in compacted THEN inc + 1 ELSE inc,
                       updated_at |-> now])
    ELSE IF WithinLimit(rl[key].count, inc, limit)
           THEN Put(rl, key, [count |-> rl[key].count + inc, updated_at |-> now])
           ELSE rl
RateLimitUpsert(rl, key, inc, now, limit) ==
  IF key \notin DOMAIN rl
    THEN Put(rl, key, [count |-> inc, updated_at |-> now])
    ELSE IF WithinLimit(rl[key].count, inc, limit)
           THEN Put(rl, key, [count |-> rl[key].count + inc, updated_at |-> now])
           ELSE rl

\* rateLimitResult.meta.changes: the rows the statement wrote
RateLimitChanges(rl, key, inc, limit) ==
  IF key \notin DOMAIN rl THEN 1
  ELSE IF WithinLimit(rl[key].count, inc, limit) THEN 1 ELSE 0

\* clapsStmt: INSERT ... ON CONFLICT(slug) DO UPDATE SET count = claps.count + excluded.count
ClapsUpsert(c, slug, inc, now) ==
  IF slug \notin DOMAIN c
    THEN Put(c, slug, [count |-> inc, updated_at |-> now])
    ELSE Put(c, slug, [count |-> c[slug].count + inc, updated_at |-> now])

(* --------------------- D1 worker: POST /claps/:slug -------------------- *)
\* where the handler goes after the debounce check: it returns when too fast
AfterDebounceNoReturn(tooFast) == "body"
AfterDebounce(tooFast) == IF tooFast THEN "done" ELSE "body"

\* lastRequestTime after the debounce step: the return at line 98 comes
\* before lastRequestTime.set
RecordedNever(map, key, now, tooFast) == map
RecordedAlways(map, key, now, tooFast) == Put(map, key, now)
Recorded(map, key, now, tooFast) == IF tooFast THEN map ELSE Put(map, key, now)

\* From the request's arrival to the await of its body: the client token,
\* then the debounce check and record (no await between Date.now() and
\* lastRequestTime.set).
D1Start(r) ==
  /\ variant = "D1"
  /\ MayStart(r)
  /\ \E slug \in inp.slugs, header \in inp.headers, now \in Nows :
       LET ipHash == sha256Hex(env, getClientIp(header))
           debounceKey == ipHash \o ":" \o slug
           lastTime == IF debounceKey \in DOMAIN lastRequestTime
                         THEN lastRequestTime[debounceKey] ELSE 0
           tooFast == now - lastTime < DEBOUNCE_MS
       IN /\ clock' = now
          /\ req' = [req EXCEPT ![r].pc = AfterDebounce(tooFast),
                                ![r].slug = slug,
                                ![r].hdr = header,
                                ![r].token = ipHash,
                                ![r].now = IF tooFast THEN 0 ELSE now,
                                ![r].at = now,
                                ![r].ws = windowStart(now),
                                ![r].debounced = tooFast,
                                ![r].outcome = IF tooFast THEN "TooFast" ELSE "none"]
          /\ lastRequestTime' = Recorded(lastRequestTime, debounceKey, now, tooFast)
  /\ UNCHANGED <<aux, variant, env, claps, rate_limits, kvStore, schedPc, cutoff, compacted>>

\* The body is read, the amount clamped, and DB.batch runs both statements
\* in one transaction; the response follows from the batch's results.
D1Batch(r) ==
  /\ variant = "D1"
  /\ req[r].pc = "body"
  /\ \E body \in Bodies :
       LET incrementBy == D1IncrementBy(body, env)
           key == <<req[r].token, req[r].slug, windowStart(req[r].now)>>
           limit == getMaxClapsPerIp(env)
           changes == RateLimitChanges(rate_limits, key, incrementBy, limit)
       IN /\ rate_limits' = RateLimitUpsert(rate_limits, key, incrementBy, req[r].now, limit)
          /\ claps' = ClapsUpsert(claps, req[r].slug, incrementBy, req[r].now)
          /\ req' = [req EXCEPT ![r].pc = "done",
                                ![r].now = 0,
                                ![r].inc = incrementBy,
                                ![r].calls = @ + 2,
                                ![r].charged = (rate_limits' # rate_limits),
                                ![r].counted = (claps' # claps),
                                ![r].outcome = IF changes = 0 THEN "RateLimited" ELSE "OK"]
  /\ UNCHANGED <<aux, variant, env, clock, lastRequestTime, kvStore, schedPc, cutoff, compacted>>

(* ---------------------- D1 worker: scheduled() ------------------------ *)
\* The cron trigger is daily (README): it fires at most once in the hours a
\* behaviour spans.
SchedStart ==
  /\ variant = "D1"
  /\ schedPc = "idle"
  /\ \E now \in Nows :
       /\ clock' = now
       /\ cutoff' = now - RETENTION_MS
  /\ schedPc' = "loop"
  /\ UNCHANGED <<aux, variant, env, claps, rate_limits, lastRequestTime, kvStore, req, compacted>>

\* (a DELETE that removes nothing)
BatchesNone(rl, cut) == {{}}
\* the rows one DELETE ... ORDER BY window_start LIMIT ?2 may remove
Batches(rl, cut) ==
  LET old == { k \in DOMAIN rl : k[3] < cut }
      n == Min(Cardinality(old), inp.batchSize)
  IN { V \in SUBSET old :
         /\ Cardinality(V) = n
         /\ \A v \in V, k \in old \ V : v[3] <= k[3] }

\* one turn of the loop; it ends when a batch deleted fewer than BATCH_SIZE rows
SchedBatch ==
  /\ variant = "D1"
  /\ schedPc = "loop"
  /\ \E V \in Batches(rate_limits, cutoff) :
       /\ rate_limits' = [k \in DOMAIN rate_limits \ V |-> rate_limits[k]]
       /\ compacted' = compacted \cup V
       /\ schedPc' = IF Cardinality(V) < inp.batchSize THEN "done" ELSE "loop"
       /\ cutoff' = IF Cardinality(V) < inp.batchSize THEN 0 ELSE cutoff
  /\ UNCHANGED <<aux, variant, env, clock, claps, lastRequestTime, kvStore, req>>

(* --------------------- KV worker: POST /claps/:slug -------------------- *)
\* From the request's arrival to the await of the limiter's record: the body
\* is read and the amount clamped, then Date.now().
KVStart(r) ==
  /\ variant = "KV"
  /\ MayStart(r)
  /\ \E slug \in inp.slugs, header \in inp.headers, body \in Bodies, now \in Nows :
       /\ clock' = now
       /\ req' = [req EXCEPT ![r].pc = "rlget",
                             ![r].slug = slug,
                             ![r].hdr = header,
                             ![r].token = getClientIp(header),
                             ![r].inc = KVIncrementBy(body),
                             ![r].now = now,
                             ![r].ws = windowStart(now)]
  /\ UNCHANGED <<aux, variant, env, d1Store, kvStore>>

\* rlData as the handler holds it after the get and the window test
KVWindow(stored, now) ==
  IF now - stored.start > RATE_LIMIT_WINDOW_MS THEN [count |-> 0, start |-> now] ELSE stored

\* rlData.count + incrementBy > MAX_CLAPS_PER_IP
KVOverLimitOrEqual(count, inc) ==
  JsGt(JsAdd(JsAdd(count, inc), 1), Num(MAX_CLAPS_PER_IP))
KVOverLimit(count, inc) == JsGt(JsAdd(count, inc), Num(MAX_CLAPS_PER_IP))

\* BLOG_CLAPS.get(rlKey) returns; the window test and the limit test follow
KVGetRl(r) ==
  /\ variant = "KV"
  /\ req[r].pc = "rlget"
  /\ LET rlKey == getRateLimitKey(req[r].token, req[r].slug)
         rlData == IF rlKey \in DOMAIN kvRl
                     THEN KVWindow(kvRl[rlKey], req[r].now)
                     ELSE [count |-> 0, start |-> req[r].now]
     IN IF KVOverLimit(rlData.count, req[r].inc)
          THEN req' = [req EXCEPT ![r].pc = "done", ![r].outcome = "RateLimited",
                                  ![r].calls = @ + 1, ![r].now = 0]
          ELSE req' = [req EXCEPT ![r].pc = "rlput", ![r].calls = @ + 1, ![r].now = 0,
                                  ![r].rlCount = JsAdd(rlData.count, req[r].inc),
                                  ![r].rlStart = rlData.start]
  /\ UNCHANGED <<aux, variant, env, clock, d1Store, kvStore>>

\* BLOG_CLAPS.put(rlKey, JSON.stringify(rlData)) takes effect
KVPutRl(r) ==
  /\ variant = "KV"
  /\ req[r].pc = "rlput"
  /\ kvRl' = Put(kvRl, getRateLimitKey(req[r].token, req[r].slug),
                 [count |-> JsonNumber(req[r].rlCount), start |-> req[r].rlStart])
  /\ req' = [req EXCEPT ![r].pc = "cget", ![r].calls = @ + 1, ![r].charged = TRUE,
                        ![r].rlCount = 0, ![r].rlStart = 0]
  /\ UNCHANGED <<aux, variant, env, clock, d1Store, kvClaps>>

\* BLOG_CLAPS.get(key) returns; newCount = parseInt(count || '0') + incrementBy
KVGetCount(r) ==
  /\ variant = "KV"
  /\ req[r].pc = "cget"
  /\ LET key == getClapKey(req[r].slug)
         currentCount == IF key \in DOMAIN kvClaps THEN ParseInt(kvClaps[key]) ELSE 0
     IN req' = [req EXCEPT ![r].pc = "cput", ![r].calls = @ + 1,
                           ![r].newCount = JsAdd(currentCount, req[r].inc)]
  /\ UNCHANGED <<aux, variant, env, clock, d1Store, kvStore>>

\* BLOG_CLAPS.put(key, newCount.toString()) takes effect
KVPutCount(r) ==
  /\ variant = "KV"
  /\ req[r].pc = "cput"
  /\ kvClaps' = Put(kvClaps, getClapKey(req[r].slug), req[r].newCount)
  /\ req' = [req EXCEPT ![r].pc = "done", ![r].outcome = "OK", ![r].calls = @ + 1,
                        ![r].counted = TRUE, ![r].newCount = 0]
  /\ UNCHANGED <<aux, variant, env, clock, d1Store, kvRl>>

(* ------------------------- GET /claps/:slug --------------------------- *)
\* the counter writes on a slug so far (kept with the answer of a GET)
Writes(slug) == Cardinality({ r \in Reqs : req[r].counted /\ req[r].slug = slug })

\* D1: row?.count ?? 0 of SELECT count FROM claps WHERE slug = ?1
D1ReadCountOne(c, slug) == IF slug \in DOMAIN c THEN c[slug].count ELSE 1
D1ReadCount(c, slug) == IF slug \in DOMAIN c THEN c[slug].count ELSE 0

\* KV: parseInt(count || '0', 10) of BLOG_CLAPS.get(key), in tenths
KVReadCount(kv, slug) ==
  IF getClapKey(slug) \in DOMAIN kv THEN ParseInt(kv[getClapKey(slug)]) ELSE 0

\* the SELECT returns and the handler answers
D1Get ==
  /\ variant = "D1"
  /\ \E slug \in inp.slugs :
       got' = [slug |-> slug, count |-> D1ReadCount(claps, slug), writes |-> Writes(slug)]
  /\ UNCHANGED <<hist, arg, res, inp, variant, env, clock, d1Store, kvStore, req>>

\* BLOG_CLAPS.get(key) returns and the handler answers
KVGet ==
  /\ variant = "KV"
  /\ \E slug \in inp.slugs :
       got' = [slug |-> slug, count |-> KVReadCount(kvClaps, slug), writes |-> Writes(slug)]
  /\ UNCHANGED <<hist, arg, res, inp, variant, env, clock, d1Store, kvStore, req>>

(* ------------------------------ the rest ------------------------------ *)
\* The handler stops at an await: the store call it waits for throws (store
\* unavailable; a D1 batch that throws has written nothing), or the caller
\* has gone and the runtime drops the handler.
Abort(r) ==
  /\ req[r].pc \notin {"idle", "done"}
  /\ req' = [req EXCEPT ![r].pc = "done", ![r].outcome = "Error", ![r].now = 0,
                        ![r].rlCount = 0, ![r].rlStart = 0, ![r].newCount = 0]
  /\ UNCHANGED <<aux, variant, env, clock, d1Store, kvStore>>

Next ==
  \/ \E r \in Reqs : D1Start(r)
  \/ \E r \in Reqs : D1Batch(r)
  \/ SchedStart
  \/ SchedBatch
  \/ \E r \in Reqs : KVStart(r)
  \/ \E r \in Reqs : KVGetRl(r)
  \/ \E r \in Reqs : KVPutRl(r)
  \/ \E r \in Reqs : KVGetCount(r)
  \/ \E r \in Reqs : KVPutCount(r)
  \/ \E r \in Reqs : Abort(r)

NextD1 ==
  \/ \E r \in Reqs : D1Start(r)
  \/ \E r \in Reqs : D1Batch(r)
  \/ SchedStart
  \/ SchedBatch
  \/ \E r \in Reqs : Abort(r)

NextKV ==
  \/ \E r \in Reqs : KVStart(r)
  \/ \E r \in Reqs : KVGetRl(r)
  \/ \E r \in Reqs : KVPutRl(r)
  \/ \E r \in Reqs : KVGetCount(r)
  \/ \E r \in Reqs : KVPutCount(r)
  \/ \E r \in Reqs : Abort(r)

\* either deployment
Spec == Init /\ [][Next]_vars
\* the D1 worker alone, and the KV worker alone
InitD1 == Init /\ variant = "D1"
InitKV == Init /\ variant = "KV"
SpecD1 == InitD1 /\ [][NextD1]_vars
SpecKV == InitKV /\ [][NextKV]_vars

(* ------------------------- reads among writes -------------------------- *)
\* GETs among the POSTs of one client; both workers, KV also on the used
\* namespace
ReadInp ==
  [slugs |-> Slugs, headers |-> {"1.1.1.1"},
   instants |-> {FirstInstant, UsedStart, UsedStart + DEBOUNCE_MS},
   nreq |-> MaxReq, batchSize |-> BATCH_SIZE]

InitRead ==
  /\ variant \in {"D1", "KV"}
  /\ env \in Envs
  /\ variant = "KV" => env = KvEnv
  /\ claps = Empty /\ rate_limits = Empty /\ lastRequestTime = Empty
  /\ \/ /\ kvRl = Empty /\ kvClaps = Empty /\ hist = {}
        /\ clock = FirstInstant
     \/ /\ variant = "KV"
        /\ kvRl = UsedKvRl /\ kvClaps = UsedKvClaps /\ hist = UsedHist
        /\ clock = UsedStart
  /\ arg = BodyInvalid /\ res = <<>>
  /\ inp = ReadInp
  /\ got = <<>>
  /\ req = [r \in Reqs |-> IdleReq]
  /\ schedPc = "idle" /\ cutoff = 0 /\ compacted = {}

NextRead ==
  \/ \E r \in Reqs : D1Start(r)
  \/ \E r \in Reqs : D1Batch(r)
  \/ \E r \in Reqs : KVStart(r)
  \/ \E r \in Reqs : KVGetRl(r)
  \/ \E r \in Reqs : KVPutRl(r)
  \/ \E r \in Reqs : KVGetCount(r)
  \/ \E r \in Reqs : KVPutCount(r)
  \/ \E r \in Reqs : Abort(r)
  \/ D1Get
  \/ KVGet

SpecRead == InitRead /\ [][NextRead]_vars

(* ------------------------ the debounce, closely ------------------------ *)
\* Three POSTs of one client within a second and a half, on two slugs, with
\* no clean-up in between
DebounceOffsets ==
  {0, DEBOUNCE_MS - 1, DEBOUNCE_MS, 2 * DEBOUNCE_MS - 1, 2 * DEBOUNCE_MS}
DebounceInp ==
  [slugs |-> Slugs, headers |-> {"1.1.1.1"},
   instants |-> { FirstInstant + o : o \in DebounceOffsets },
   nreq |-> MoreReq, batchSize |-> BATCH_SIZE]

InitDebounce ==
  /\ variant = "D1"
  /\ env \in Envs
  /\ claps = Empty /\ rate_limits = Empty /\ lastRequestTime = Empty
  /\ kvRl = Empty /\ kvClaps = Empty /\ hist = {}
  /\ clock = FirstInstant
  /\ arg = BodyInvalid /\ res = <<>>
  /\ inp = DebounceInp
  /\ got = <<>>
  /\ req = [r \in Reqs |-> IdleReq]
  /\ schedPc = "idle" /\ cutoff = 0 /\ compacted = {}

NextDebounce ==
  \/ \E r \in Reqs : D1Start(r)
  \/ \E r \in Reqs : D1Batch(r)
  \/ \E r \in Reqs : Abort(r)

SpecDebounce == InitDebounce /\ [][NextDebounce]_vars

(* ---------------------- the KV limiter under load --------------------- *)
\* Three POSTs of one client on one slug, on a namespace where the client has
\* had four POSTs of 10 accepted at UsedStart
RaceAdmitted == Num(MAX_CLAPS_PER_IP - KV_MAX_PER_REQUEST)
RaceInp ==
  [slugs |-> {"a"}, headers |-> {"1.1.1.1"},
   instants |-> {UsedStart, 2 * RATE_LIMIT_WINDOW_MS,
                 UsedStart + RATE_LIMIT_WINDOW_MS + 1},
   nreq |-> MoreReq, batchSize |-> BATCH_SIZE]

InitKVRace ==
  /\ variant = "KV"
  /\ env = KvEnv
  /\ claps = Empty /\ rate_limits = Empty /\ lastRequestTime = Empty
  /\ kvRl = (getRateLimitKey("1.1.1.1", "a") :> [count |-> RaceAdmitted, start |-> UsedStart])
  /\ kvClaps = (getClapKey("a") :> RaceAdmitted)
  /\ hist = UsedHist
  /\ clock = UsedStart
  /\ arg = BodyInvalid /\ res = <<>>
  /\ inp = RaceInp
  /\ got = <<>>
  /\ req = [r \in Reqs |-> IdleReq]
  /\ schedPc = "idle" /\ cutoff = 0 /\ compacted = {}

SpecKVRace == InitKVRace /\ [][NextKV]_vars

(* --------------------- the clean-up, turn by turn ---------------------- *)
\* The tables hold up to 2 * SmallBatch rows of the windows 0 and 1 (one POST
\* of 1 each), the clean-up runs in window 3 with batches of SmallBatch rows,
\* and two POSTs run beside it.
OldKey(i) ==
  << sha256Hex(KvEnv, IF i % 2 = 0 THEN "1.1.1.1" ELSE "0.0.0.0"),
     IF (i \div 2) % 2 = 0 THEN "a" ELSE "b",
     ((i \div 4) % 2) * RATE_LIMIT_WINDOW_MS >>
OldKeys(n) == { OldKey(i) : i \in 0..(n - 1) }
OldRateLimits(n) == [k \in OldKeys(n) |-> [count |-> 1, updated_at |-> k[3]]]
OldClaps(n) ==
  [s \in { k[2] : k \in OldKeys(n) } |->
     [count |-> Cardinality({ k \in OldKeys(n) : k[2] = s }),
      updated_at |-> IF \E k \in OldKeys(n) : k[2] = s /\ k[3] > 0
                       THEN RATE_LIMIT_WINDOW_MS ELSE 0]]

SchedInp ==
  [slugs |-> Slugs, headers |-> {"1.1.1.1"},
   instants |-> {FirstInstant, FirstInstant + DEBOUNCE_MS,
                 3 * RATE_LIMIT_WINDOW_MS + DEBOUNCE_MS},
   nreq |-> MaxReq, batchSize |-> SmallBatch]

InitSched ==
  /\ variant = "D1"
  /\ env = KvEnv
  /\ \E n \in 0..(2 * SmallBatch) :
       /\ rate_limits = OldRateLimits(n)
       /\ claps = OldClaps(n)
       /\ hist = OldKeys(n)
  /\ lastRequestTime = Empty
  /\ kvRl = Empty /\ kvClaps = Empty
  /\ clock = FirstInstant
  /\ arg = BodyInvalid /\ res = <<>>
  /\ inp = SchedInp
  /\ got = <<>>
  /\ req = [r \in Reqs |-> IdleReq]
  /\ schedPc = "idle" /\ cutoff = 0 /\ compacted = {}

\* Each DELETE the loop awaits is answered: the loop is not left waiting
\* for ever.
SpecSched == InitSched /\ [][NextD1]_vars /\ WF_vars(SchedBatch)

(* ------------------- addresses and slugs with colons ------------------- *)
\* Two IPv6 clients and two slugs (SLUG_RE allows ':' after the first
\* character); either worker; the KV namespace empty, or used up by the first
\* client on the slug "2:x" (five accepted POSTs of 10 at FirstInstant)
KeysInp ==
  [slugs |-> {"x", "2:x"}, headers |-> {"2001:db8::1", "2001:db8::1:2"},
   instants |-> {FirstInstant, FirstInstant + DEBOUNCE_MS},
   nreq |-> MaxReq, batchSize |-> BATCH_SIZE]

InitKeys ==
  /\ variant \in {"D1", "KV"}
  /\ env \in Envs
  /\ variant = "KV" => env = KvEnv
  /\ claps = Empty /\ rate_limits = Empty /\ lastRequestTime = Empty
  /\ \/ /\ kvRl = Empty /\ kvClaps = Empty /\ hist = {}
     \/ /\ variant = "KV"
        /\ kvRl = (getRateLimitKey("2001:db8::1", "2:x")
                     :> [count |-> Num(MAX_CLAPS_PER_IP), start |-> FirstInstant])
        /\ kvClaps = (getClapKey("2:x") :> Num(MAX_CLAPS_PER_IP))
        /\ hist = {<<"2001:db8::1", "2:x", windowStart(FirstInstant)>>}
  /\ clock = FirstInstant
  /\ arg = BodyInvalid /\ res = <<>>
  /\ inp = KeysInp
  /\ got = <<>>
  /\ req = [r \in Reqs |-> IdleReq]
  /\ schedPc = "idle" /\ cutoff = 0 /\ compacted = {}

SpecKeys == InitKeys /\ [][Next]_vars

(* ----------------------- the clamping, on its own ---------------------- *)
\* bodies: none, {}, {"count": "abc"}, and the counts 0, -5, 0.5, 1, 2.5,
\* 3.7, 10, 10.5, 30, 999
ClampBodies ==
  {BodyInvalid, BodyNoCount, BodyStr}
    \cup { BodyNum(t) : t \in {0, -50, 5, 10, 25, 37, 100, 105, 300, 9990} }
ClampEnvs ==
  { [MAX_CLAPS_PER_IP |-> NaN, MAX_CLAPS_PER_REQUEST |-> q, IP_HASH_SALT |-> "s"] :
      q \in {NaN, 2, 5, 30} }

InitClamp ==
  /\ variant \in {"D1", "KV"}
  /\ env \in ClampEnvs
  /\ variant = "KV" => env = KvEnv
  /\ arg \in ClampBodies
  /\ res = <<>>
  /\ inp = DefaultInp
  /\ got = <<>>
  /\ clock = FirstInstant
  /\ claps = Empty /\ rate_limits = Empty /\ lastRequestTime = Empty
  /\ kvRl = Empty /\ kvClaps = Empty /\ hist = {}
  /\ req = [r \in Reqs |-> IdleReq]
  /\ schedPc = "idle" /\ cutoff = 0 /\ compacted = {}

\* incrementBy as the deployed worker computes it, in tenths
Clamp ==
  /\ res = <<>>
  /\ res' = <<IF variant = "D1" THEN Num(D1IncrementBy(arg, env)) ELSE KVIncrementBy(arg)>>
  /\ UNCHANGED <<hist, arg, inp, got, variant, env, clock, d1Store, kvStore, req>>

SpecClamp == InitClamp /\ [][Clamp]_vars

(* ------------------------------ the claims ----------------------------- *)
\* the stored count of a resource (0 when it has no row or key)
StoredCount(slug) ==
  IF variant = "D1"
    THEN IF slug \in DOMAIN claps THEN claps[slug].count ELSE 0
    ELSE IF getClapKey(slug) \in DOMAIN kvClaps THEN kvClaps[getClapKey(slug)] ELSE 0

\* the limiter's record a request is charged against, as a set (empty: none)
LimiterRecord(r) ==
  IF variant = "D1"
    THEN LET key == <<req[r].token, req[r].slug, req[r].ws>>
         IN IF key \in DOMAIN rate_limits THEN {rate_limits[key]} ELSE {}
    ELSE LET key == getRateLimitKey(req[r].token, req[r].slug)
         IN IF key \in DOMAIN kvRl THEN {kvRl[key]} ELSE {}

\* the <<client, slug, window_start>> of a request's admission attempt
Key(r) == <<req[r].token, req[r].slug, req[r].ws>>
Accepted(r) == req[r].outcome = "OK"
Rejected(r) == req[r].outcome = "RateLimited"
\* the request's admission attempt has been answered
Attempted(r) == Accepted(r) \/ Rejected(r) \/ req[r].charged
\* the configured ceilings, in the unit of req[r].inc (KV: tenths)
CeilingL == IF variant = "D1" THEN getMaxClapsPerIp(env) ELSE Num(MAX_CLAPS_PER_IP)
CeilingR == IF variant = "D1" THEN getMaxClapsPerRequest(env) ELSE Num(KV_MAX_PER_REQUEST)

RECURSIVE SumInc(_)
SumInc(S) ==
  IF S = {} THEN 0
  ELSE LET r == CHOOSE x \in S : TRUE IN req[r].inc + SumInc(S \ {r})

\* C1: a POST answered "Rate limit exceeded" leaves the resource's counter
\* as it was: the step that rejects it does not change the stored count.
C1_RejectLeavesCounter ==
  [][\A r \in Reqs :
       (~Rejected(r) /\ Rejected(r)') =>
         \A s \in Slugs : StoredCount(s)' = StoredCount(s)]_vars

C3_NoLostIncrements ==
  variant = "D1" =>
    \A s \in Slugs :
      StoredCount(s) = SumInc({r \in Reqs : Accepted(r) /\ req[r].slug = s})

\* C4: both workers: no step lowers the stored count of a resource.
C4_CountMonotone ==
  [][\A s \in Slugs : StoredCount(s)' >= StoredCount(s)]_vars

\* C5: wherever a request has stopped, the limiter has been charged with it
\* exactly when the counter has been incremented by it.
C5_NeverHalfApplied ==
  \A r \in Reqs : req[r].pc = "done" => (req[r].charged <=> req[r].counted)

\* C6: the count of every rate_limits row is at most L.
C6_RecordWithinCeiling ==
  \A k \in DOMAIN rate_limits : rate_limits[k].count <= getMaxClapsPerIp(env)

\* C7: the step that rejects an admission attempt leaves the limiter's record
\* of its key (count and updated_at; for KV count and start) as it was.
C7_RejectLeavesRecord ==
  [][\A r \in Reqs :
       (~Rejected(r) /\ Rejected(r)') => LimiterRecord(r)' = LimiterRecord(r)]_vars
\* with L = 3: attempts of 2 and 2 in one window, admitted then rejected, and
\* the window's recorded count is 2
C7_Witness ==
  /\ variant = "D1"
  /\ \E r, q \in Reqs :
       /\ Key(r) = Key(q) /\ Accepted(r) /\ Rejected(q)
       /\ req[r].inc = 2 /\ req[q].inc = 2 /\ CeilingL = 3
       /\ LimiterRecord(q) # {}
       /\ \A row \in LimiterRecord(q) : row.count = 2

\* C8: windows are floor(now / W) * W and each has its own ceiling: an attempt
\* of amount at most L is rejected only if another attempt of the same client
\* and resource in the same window was answered before it.
C8_FirstOfWindowAdmitted ==
  [][\A r \in Reqs :
       (~Rejected(r) /\ Rejected(r)' /\ req'[r].inc <= CeilingL) =>
         \/ Key(r) \in hist
         \/ \E q \in Reqs \ {r} : Attempted(q) /\ Key(q) = Key(r)]_vars

\* C9: the amount is a whole number in [1, R]; 0, -5, 999 and 3.7 give 1, 1,
\* R and 3 (R when R < 3), and a missing or non-numeric amount gives 1.
C9_ClampedAmount ==
  res # <<>> =>
    LET v == res[1]
        R == IF variant = "D1" THEN getMaxClapsPerRequest(env) ELSE KV_MAX_PER_REQUEST
    IN /\ IsWhole(v)
       /\ Num(1) <= v /\ v <= Num(R)
       /\ arg = BodyNum(0) => v = Num(1)
       /\ arg = BodyNum(-50) => v = Num(1)
       /\ arg = BodyNum(9990) => v = Num(R)
       /\ arg = BodyNum(37) => v = Num(Min(3, R))
       /\ arg.kind # "num" => v = Num(1)

\* C10: D1 worker: a request the debounce step rejects issues no store call
\* and changes neither table.
C10_TooFastNoStore ==
  \A r \in Reqs :
    req[r].debounced => (req[r].calls = 0 /\ ~req[r].charged /\ ~req[r].counted)
C10_Witness ==
  \E r \in Reqs :
    /\ req[r].debounced /\ req[r].outcome = "TooFast" /\ req[r].pc = "done"
    /\ \E q \in Reqs : Accepted(q) /\ req[q].token = req[r].token /\ req[q].slug = req[r].slug

\* C11: the clean-up deletes only rows whose window_start is before its cutoff
\* (its Date.now() minus two windows), and never the row of the window a POST
\* in flight (past its Date.now(), before its batch) is charged against.
C11_CompactorSparesCurrent ==
  [][\A k \in DOMAIN rate_limits \ DOMAIN rate_limits' :
       /\ k[3] < cutoff
       /\ \A r \in Reqs : req[r].pc = "body" => Key(r) # k]_vars

\* C12: a GET of a slug that was never incremented answers 0; the step that
\* answers a GET changes no counter and no limiter record; and a GET of the
\* slug of the previous GET, with no counter write on it in between, answers
\* the same count.
C12_ReadIsPure ==
  [][got' # got =>
       /\ claps' = claps /\ rate_limits' = rate_limits
       /\ kvClaps' = kvClaps /\ kvRl' = kvRl
       /\ (got'.writes = 0 /\ \A k \in hist : k[2] # got'.slug) => got'.count = 0
       /\ (got # <<>> /\ got.slug = got'.slug /\ got.writes = got'.writes)
            => got'.count = got.count]_vars
\* a GET of a slug nothing was written to answered 0, after a POST on another
\* slug was accepted
C12_Witness ==
  /\ got # <<>>
  /\ got.count = 0 /\ got.writes = 0
  /\ \A k \in hist : k[2] # got.slug
  /\ \E r \in Reqs : Accepted(r) /\ req[r].slug # got.slug

\* the token of the sentinel address 0.0.0.0
SentinelToken == IF variant = "D1" THEN sha256Hex(env, "0.0.0.0") ELSE "0.0.0.0"
\* the request presented no CF-Connecting-IP
AddressLess(r) == req[r].pc # "idle" /\ req[r].hdr = ""

\* C13: a POST without a client address is charged as the sentinel address
\* 0.0.0.0: all such POSTs on a slug share one limiter record per window, and
\* the amounts of those accepted in one window sum to at most L.
C13_AddressLessLimited ==
  \A r \in Reqs :
    AddressLess(r) =>
      /\ req[r].token = SentinelToken
      /\ SumInc({q \in Reqs : /\ AddressLess(q) /\ Accepted(q)
                               /\ req[q].slug = req[r].slug
                               /\ req[q].ws = req[r].ws}) <= CeilingL
\* the first half alone
C13_SentinelSubstituted ==
  \A r \in Reqs : AddressLess(r) => req[r].token = SentinelToken

\* C14: D1 worker: the first batch on a key after the clean-up deleted the
\* key's row is evaluated against a count of 0: with an amount of at most L it
\* is accepted, and the row it creates holds exactly its amount.
C14_FreshAfterCompaction ==
  [][\A r \in Reqs :
       ( /\ req[r].pc = "body" /\ req'[r].pc = "done" /\ req'[r].outcome # "Error"
         /\ Key(r) \in compacted /\ Key(r) \notin DOMAIN rate_limits
         /\ req'[r].inc <= CeilingL )
       => /\ Accepted(r)'
          /\ Key(r) \in DOMAIN rate_limits'
          /\ rate_limits'[Key(r)].count = req'[r].inc]_vars
\* a POST accepted on a key the clean-up had deleted; the row is the one it made
C14_Witness ==
  \E r \in Reqs :
    /\ Accepted(r) /\ req[r].charged /\ req[r].inc <= CeilingL
    /\ Key(r) \in compacted /\ Key(r) \in DOMAIN rate_limits
    /\ rate_limits[Key(r)].updated_at = req[r].at
    /\ rate_limits[Key(r)].count = req[r].inc

\* the request went past the debounce step (D1)
Passed(r) == req[r].at # 0 /\ ~req[r].debounced
SamePair(r, q) == req[r].token = req[q].token /\ req[r].slug = req[q].slug

\* C15: the step that answers a POST "Too fast" does so on account of a POST
\* of the same client and slug that went past the debounce step less than
\* D = 500 ms earlier and that has been accepted, or is still in flight: never
\* on account of one that ended rate-limited or with an error.
C15_TooFastOnlyAfterAccepted ==
  [][\A r \in Reqs :
       (~req[r].debounced /\ req'[r].debounced) =>
         \E q \in Reqs \ {r} :
           /\ Passed(q)
           /\ req[q].token = req'[r].token /\ req[q].slug = req'[r].slug
           /\ req'[r].at - req[q].at < DEBOUNCE_MS
           /\ (Accepted(q) \/ req[q].pc = "body")]_vars

\* the limiter's record as a KV handler at "rlget" would take it from the store
KVRecordRead(r) ==
  LET rlKey == getRateLimitKey(req[r].token, req[r].slug)
  IN IF rlKey \in DOMAIN kvRl
       THEN KVWindow(kvRl[rlKey], req[r].now)
       ELSE [count |-> 0, start |-> req[r].now]

\* C16: KV worker: the admission check is a read, a test on what was read,
\* and a later write of what was read plus the amount: the step that answers
\* the read rejects exactly when the count read plus the amount is over L and
\* writes nothing, and the later put stores the count read plus the amount
\* whatever the store holds by then.  (C16_Witness: so it can over-admit and
\* under-admit.)
C16_ReadCheckWrite ==
  [][\A r \in Reqs :
       /\ (req[r].pc = "rlget" /\ req'[r].pc # "rlget" /\ req'[r].outcome # "Error") =>
            /\ kvRl' = kvRl
            /\ Rejected(r)' <=>
                 JsGt(JsAdd(KVRecordRead(r).count, req[r].inc), Num(MAX_CLAPS_PER_IP))
            /\ ~Rejected(r)' =>
                 req'[r].rlCount = JsAdd(KVRecordRead(r).count, req[r].inc)
       /\ (req[r].pc = "rlput" /\ req'[r].pc = "cget") =>
            kvRl'[getRateLimitKey(req[r].token, req[r].slug)].count
              = JsonNumber(req[r].rlCount)]_vars
\* Over-admitted: two POSTs of the window of UsedStart accepted on top of the
\* 40 admitted before, 60 in all.  Under-admitted: a third POST, of the next
\* window, in which nothing was admitted, rejected with an amount within L.
C16_Witness ==
  /\ variant = "KV"
  /\ \E r, q, u \in Reqs :
       /\ r # q
       /\ Accepted(r) /\ Accepted(q) /\ Key(r) = Key(q) /\ Key(r) \in hist
       /\ RaceAdmitted + req[r].inc + req[q].inc > Num(MAX_CLAPS_PER_IP)
       /\ Rejected(u) /\ SamePair(u, r) /\ req[u].ws > req[r].ws
       /\ Key(u) \notin hist
       /\ \A x \in Reqs : Accepted(x) => Key(x) # Key(u)
       /\ req[u].inc <= Num(MAX_CLAPS_PER_IP)

\* C17: once the clean-up's loop has started it ends, with POSTs writing rows
\* beside it and with a number of expired rows that is a multiple of the batch
\* size; and the turn that ends it leaves no row whose window_start is before
\* the cutoff.
C17_LoopEndsClean ==
  /\ (schedPc = "loop") ~> (schedPc = "done")
  /\ [][(schedPc = "loop" /\ schedPc' = "done") =>
          \A k \in DOMAIN rate_limits' : k[3] >= cutoff]_vars
\* the loop has ended after deleting two full batches, a POST having written
\* a row after the clean-up started
C17_Witness ==
  /\ schedPc = "done"
  /\ Cardinality(compacted) = 2 * inp.batchSize
  /\ \E r \in Reqs : req[r].charged /\ rate_limits # Empty

\* the client tokens, and the limiter's record of a client and slug (D1: and
\* window), as a set (empty: none)
TokenOf(header) ==
  IF variant = "D1" THEN sha256Hex(env, getClientIp(header)) ELSE getClientIp(header)
RecordOf(t, s, w) ==
  IF variant = "D1"
    THEN IF <<t, s, w>> \in DOMAIN rate_limits THEN {rate_limits[<<t, s, w>>]} ELSE {}
    ELSE IF getRateLimitKey(t, s) \in DOMAIN kvRl THEN {kvRl[getRateLimitKey(t, s)]} ELSE {}
\* another limiter record than the one of (t, s, w); the KV worker keeps one
\* record per client and slug
OtherRecord(t2, s2, w2, t, s, w) ==
  IF variant = "D1" THEN <<t2, s2, w2>> # <<t, s, w>> ELSE <<t2, s2>> # <<t, s>>

\* C18: a step of a POST of client t on slug s in window w changes no counter
\* but that of s and no limiter record but that of (t, s, w); and the POST is
\* rejected (with an amount within L) only if the same client was charged on
\* the same slug before.
C18_OnlyOwnKeys ==
  [][\A r \in Reqs :
       (req'[r] # req[r]) =>
         LET t == req'[r].token
             s == req'[r].slug
             w == req'[r].ws
         IN /\ \A s2 \in inp.slugs \ {s} : StoredCount(s2)' = StoredCount(s2)
            /\ \A h \in inp.headers, s2 \in inp.slugs, i \in inp.instants :
                 OtherRecord(TokenOf(h), s2, windowStart(i), t, s, w) =>
                   RecordOf(TokenOf(h), s2, windowStart(i))'
                     = RecordOf(TokenOf(h), s2, windowStart(i))
            /\ (~Rejected(r) /\ Rejected(r)' /\ req'[r].inc <= CeilingL) =>
                 \/ \E k \in hist : k[1] = t /\ k[2] = s
                 \/ \E q \in Reqs \ {r} : req[q].charged /\ SamePair(q, r)]_vars

\* C19: D1 worker, one instance: any two POSTs of one client and slug that
\* both went past the debounce step read Date.now() values at least
\* D = 500 ms apart, however their handlers interleave.
C19_PassedAreApart ==
  \A r, q \in Reqs :
    (r # q /\ Passed(r) /\ Passed(q) /\ SamePair(r, q)) =>
      \/ req[r].at - req[q].at >= DEBOUNCE_MS
      \/ req[q].at - req[r].at >= DEBOUNCE_MS
\* two handlers of one pair in flight together, exactly D apart, and a third
\* POST of the pair turned away
C19_Witness ==
  \E r, q, u \in Reqs :
    /\ Passed(r) /\ Passed(q) /\ SamePair(r, q)
    /\ req[r].pc = "body" /\ req[q].pc = "body"
    /\ req[q].at - req[r].at = DEBOUNCE_MS
    /\ req[u].debounced /\ SamePair(u, r)

\* the last Date.now() of the POSTs of r's client and slug that went past the
\* debounce step before r arrives (0: none); r's pair is read after its arrival
LastPassed(r) ==
  LET P == { q \in Reqs \ {r} :
               Passed(q) /\ req[q].token = req'[r].token /\ req[q].slug = req'[r].slug }
  IN IF P = {} THEN 0
     ELSE req[CHOOSE q \in P : \A x \in P : req[x].at <= req[q].at].at

\* C20: D1 worker: an arriving POST goes past the debounce step when its
\* Date.now() is at least D after that of the last POST of its pair that went
\* past it, whatever was turned away in between; and a POST turned away
\* leaves lastRequestTime as it was.
C20_NotBlockedForever ==
  [][\A r \in Reqs :
       (req[r].pc = "idle" /\ req'[r].pc # "idle") =>
         /\ req'[r].at - LastPassed(r) >= DEBOUNCE_MS => ~req'[r].debounced
         /\ req'[r].debounced => lastRequestTime' = lastRequestTime]_vars
\* r passed, u was turned away less than D later, q passed less than D after
\* u and at least D after r
C20_Witness ==
  \E r, u, q \in Reqs :
    /\ Passed(r) /\ req[u].debounced /\ Passed(q)
    /\ SamePair(r, u) /\ SamePair(r, q)
    /\ req[r].at <= req[u].at /\ req[u].at - req[r].at < DEBOUNCE_MS
    /\ req[u].at < req[q].at /\ req[q].at - req[u].at < DEBOUNCE_MS
    /\ req[q].at - req[r].at >= DEBOUNCE_MS

====
